---- MODULE Spec2Model ----
(***************************************************************************)
(* Model of src/main.py: a Streamlit quiz page.  One session's state is    *)
(* st.session_state (the data connection, the hint counter, the hint       *)
(* history, the per-tab quiz state) plus what the last script run drew     *)
(* (the clickable buttons).  Every user interaction starts one run of      *)
(* run(); a run that asks for a hint blocks in send_cortex_message until   *)
(* the gateway answers, which is the only place a run is split in two.     *)
(***************************************************************************)
EXTENDS Integers, Sequences, FiniteSets, TLC

\* ---------------------------------------------------------------- constants

MAX_ATTEMPTS_MAIN == 100

MAX_HINTS == 2

\* Longest text typed into the hint field.
MaxQuestionLen == 2

\* st.session_state.snowflake_conn: None (also: key absent) or a connection.
None == "None"

Conn == "conn"

\* ------------------------------------------------------------------ strings
\* An answer is a sequence of characters; these are the characters used.
Whitespace == {"sp", "tab", "zsp"}

\* correct_answer = "岡山県" (three characters)
correct_answer == <<"oka", "yama", "ken">>

RECURSIVE lstrip(_)
lstrip(s) ==
    IF s = <<>> THEN <<>>
    ELSE IF Head(s) \in Whitespace THEN lstrip(Tail(s)) ELSE s

RECURSIVE rstrip(_)
rstrip(s) ==
    IF s = <<>> THEN <<>>
    ELSE IF s[Len(s)] \in Whitespace THEN rstrip(SubSeq(s, 1, Len(s) - 1)) ELSE s

\* str.strip()
strip(s) == rstrip(lstrip(s))

\* An answer with nothing but whitespace in it.
Blank(a) == \A i \in 1..Len(a) : a[i] \in Whitespace

\* The answers a user types into the answer field.
Answers ==
    { <<>>,
      <<"sp", "zsp", "tab">>,
      correct_answer,
      <<"sp">> \o correct_answer \o <<"zsp">>,
      <<"tab">> \o correct_answer,
      <<"oka", "sp", "yama", "ken">>,
      <<"oka", "yama">>,
      <<"tou", "kyou", "to">> }

\* The texts a user types into the hint field (<<>> is the empty field).
Questions == { [i \in 1..n |-> "q"] : n \in 0..MaxQuestionLen }

\* ------------------------------------------------------- gateway responses
\* message.content of a body that has one: lists of blocks of type text or
\* sql, and a list whose item has no "type" key.
Contents ==
    { <<>>, <<"text">>, <<"text", "sql">>, <<"sql", "text">>, <<"notype">> }

NoResponse == [kind |-> "None", content |-> <<>>]

\* What resp.json() can give: it raises (not JSON), a falsy value ({}), a
\* truthy value without message.content, or a body with message.content.
Bodies ==
    { [kind |-> "not_json", content |-> <<>>],
      [kind |-> "empty", content |-> <<>>],
      [kind |-> "no_content", content |-> <<>>] }
    \cup { [kind |-> "content", content |-> c] : c \in Contents }

Statuses == {200, 399, 400, 503}

\* What the connection and the network do during one send_cortex_message.
Envs ==
    { [token |-> FALSE, raises |-> FALSE, status |-> 0, body |-> NoResponse],
      [token |-> TRUE, raises |-> TRUE, status |-> 0, body |-> NoResponse] }
    \cup { [token |-> TRUE, raises |-> FALSE, status |-> s, body |-> b] :
             s \in Statuses, b \in Bodies }

\* send_cortex_message with the status test off by a class (< 500).
send_cortex_message_status(e) ==
    IF ~e.token THEN NoResponse
    ELSE IF e.raises THEN NoResponse
    ELSE IF e.status < 500
         THEN IF e.body.kind = "not_json" THEN NoResponse ELSE e.body
         ELSE NoResponse

\* send_cortex_message: the parsed body, or None.
send_cortex_message(e) ==
    IF ~e.token THEN NoResponse
    ELSE IF e.raises THEN NoResponse
    ELSE IF e.status < 400
         THEN IF e.body.kind = "not_json" THEN NoResponse ELSE e.body
         ELSE NoResponse

\* Python truthiness of send_cortex_message's result.
Truthy(r) == r.kind \notin {"None", "empty"}

\* response["message"]["content"] raises unless the body has it.
HasContent(r) == r.kind = "content"

\* display_cortex_content raises on an item without "type".
DisplayRaises(content) == \E i \in 1..Len(content) : content[i] = "notype"

\* How the gateway call went, read off the connection and the network alone.
Outcome(e) ==
    IF ~e.token THEN "no_token"
    ELSE IF e.raises THEN "transport"
    ELSE IF e.status >= 400 THEN "http_error"
    ELSE e.body.kind

\* ------------------------------------------------------------------- state
VARIABLES
    snowflake_conn,   \* st.session_state.snowflake_conn
    hint_count,       \* st.session_state[f'{tab_name}_hint_count']
    hints_history,    \* st.session_state[f'{tab_name}_hints_history']
    state,            \* st.session_state[f'{tab_name}_state']: is_clear, attempts
    pc,               \* "idle", or "sending": a run blocked in send_cortex_message
    hint_question,    \* the question of the run blocked in send_cortex_message
    buttons,          \* the enabled buttons the last run drew
    queries_run,      \* the last run called pd.read_sql
    last,             \* what the last step was (history variable)
    conn_failed       \* some connection attempt of the session failed (history variable)

vars ==
    << snowflake_conn, hint_count, hints_history, state, pc, hint_question,
       buttons, queries_run, last, conn_failed >>

\* init_state, and the defaults present_quiz gives the hint keys
Init ==
    /\ snowflake_conn = None
    /\ hint_count = 0
    /\ hints_history = <<>>
    /\ state = [is_clear |-> FALSE, attempts |-> 0]
    /\ pc = "idle"
    /\ hint_question = <<>>
    /\ buttons = {}
    /\ queries_run = FALSE
    /\ last = "start"
    /\ conn_failed = FALSE

\* get_snowflake_connection, called only while the stored connection is None:
\* the connection it can leave in st.session_state.
Connect(c) == IF c = None THEN {None, Conn} ELSE {c}

\* The replay of the history raises when a stored response does.
HistoryRaises(c, hist) ==
    /\ c # None
    /\ \E i \in 1..Len(hist) : DisplayRaises(hist[i].response)

\* The budget test off by one.
HintAllowed_le(hc) == hc <= MAX_HINTS

\* The budget test dropped.
HintAllowed_always(hc) == TRUE

\* The hint section is drawn (and a click on its button heard) only below the budget.
HintAllowed(hc) == hc < MAX_HINTS

\* The "ヒント取得" button, drawn enabled.
HintButton(c, hc) == IF HintAllowed(hc) /\ c # None THEN {"get_hint"} ELSE {}

\* The sample query without its connection test.
SampleQueryRuns_always(c) == TRUE

\* The sample query runs only with a connection.
SampleQueryRuns(c) == c # None

\* The record with the blocks in reverse order.
hint_result_reversed(q, response) ==
    [question |-> q,
     response |-> [i \in 1..Len(response.content) |->
                     response.content[Len(response.content) + 1 - i]]]

\* The record a successful hint appends.
hint_result(q, response) == [question |-> q, response |-> response.content]

\* The attempt limit test off by one.
AttemptsExhausted_gt(st) == st.attempts > MAX_ATTEMPTS_MAIN

\* The attempt limit test of run
AttemptsExhausted(st) == st.attempts >= MAX_ATTEMPTS_MAIN

\* The buttons run() draws after present_quiz returned.
TailButtons(c, hist, st) ==
    IF HistoryRaises(c, hist) THEN {}
    ELSE IF AttemptsExhausted(st) THEN {"reset"} ELSE {"submit"}

\* process_answer comparing the untrimmed text.
process_answer_untrimmed(answer, st) ==
    IF answer # <<>> /\ strip(answer) # <<>>
    THEN [attempts |-> st.attempts + 1, is_clear |-> answer = correct_answer]
    ELSE st

\* process_answer without the strip() in its guard.
process_answer_unguarded(answer, st) ==
    IF answer # <<>>
    THEN [attempts |-> st.attempts + 1, is_clear |-> strip(answer) = correct_answer]
    ELSE st

\* process_answer
process_answer(answer, st) ==
    IF answer # <<>> /\ strip(answer) # <<>>
    THEN [attempts |-> st.attempts + 1, is_clear |-> strip(answer) = correct_answer]
    ELSE st

\* The reset branch of run
reset_state(st) == [attempts |-> 0, is_clear |-> FALSE]

\* A run in which no button takes effect, with connection c after line 162.
PlainRun(c) ==
    /\ snowflake_conn' = c
    /\ conn_failed' = (conn_failed \/ c = None)
    /\ queries_run' = SampleQueryRuns(c)
    /\ buttons' = HintButton(c, hint_count) \cup TailButtons(c, hints_history, state)
    /\ pc' = "idle"
    /\ UNCHANGED << hint_count, hints_history, state, hint_question >>

\* A rerun without a click (an edited text field, the rerun menu).
Rerun ==
    /\ pc = "idle"
    /\ \E c \in Connect(snowflake_conn) : PlainRun(c)
    /\ last' = "rerun"

\* A click on "ヒント取得" with q in the hint field: the run up to requests.post.
ClickGetHint(q) ==
    /\ pc = "idle"
    /\ "get_hint" \in buttons
    /\ IF HintAllowed(hint_count) /\ q # <<>> /\ snowflake_conn # None
       THEN /\ hint_count' = hint_count + 1
            /\ pc' = "sending"
            /\ hint_question' = q
            /\ buttons' = {}
            /\ queries_run' = SampleQueryRuns(snowflake_conn)
            /\ last' = "sent"
            /\ UNCHANGED << snowflake_conn, hints_history, state, conn_failed >>
       ELSE /\ \E c \in Connect(snowflake_conn) : PlainRun(c)
            /\ last' = IF HintAllowed(hint_count) THEN "rerun" ELSE "hint_rejected"

\* send_cortex_message returns under e, and the run goes on to its end.
SendReturns(e) ==
    /\ pc = "sending"
    /\ LET response == send_cortex_message(e) IN
       IF Truthy(response)
       THEN IF HasContent(response)
            THEN LET hist == Append(hints_history,
                                    hint_result(hint_question, response)) IN
                 /\ hints_history' = hist
                 /\ buttons' = {"get_hint"} \cup TailButtons(snowflake_conn, hist, state)
                 /\ UNCHANGED hint_count
            ELSE /\ buttons' = {"get_hint"}
                 /\ UNCHANGED << hint_count, hints_history >>
       ELSE /\ hint_count' = hint_count - 1
            /\ buttons' = {"get_hint"} \cup TailButtons(snowflake_conn, hints_history, state)
            /\ UNCHANGED hints_history
    /\ last' = Outcome(e)
    /\ pc' = "idle"
    /\ hint_question' = <<>>
    /\ UNCHANGED << snowflake_conn, state, queries_run, conn_failed >>

\* A click on "討伐開始" with answer a in the answer field, and the rerun after it.
SubmitAnswer(a) ==
    /\ pc = "idle"
    /\ "submit" \in buttons
    /\ \E c1 \in Connect(snowflake_conn) :
         IF HistoryRaises(c1, hints_history) \/ AttemptsExhausted(state)
         THEN /\ PlainRun(c1)
              /\ last' = "rerun"
         ELSE \E c2 \in Connect(c1) :
                /\ state' = process_answer(a, state)
                /\ snowflake_conn' = c2
                /\ conn_failed' = (conn_failed \/ c1 = None)
                /\ queries_run' = SampleQueryRuns(c2)
                /\ buttons' = HintButton(c2, hint_count)
                                \cup TailButtons(c2, hints_history, state')
                /\ last' = IF Blank(a) THEN "submit_blank" ELSE "submit"
                /\ UNCHANGED << hint_count, hints_history, pc, hint_question >>

\* A click on "リセット", and the rerun after it.
Reset ==
    /\ pc = "idle"
    /\ "reset" \in buttons
    /\ \E c1 \in Connect(snowflake_conn) :
         IF HistoryRaises(c1, hints_history) \/ ~AttemptsExhausted(state)
         THEN /\ PlainRun(c1)
              /\ last' = "rerun"
         ELSE \E c2 \in Connect(c1) :
                /\ state' = reset_state(state)
                /\ snowflake_conn' = c2
                /\ conn_failed' = (conn_failed \/ c1 = None)
                /\ queries_run' = SampleQueryRuns(c2)
                /\ buttons' = HintButton(c2, hint_count)
                                \cup TailButtons(c2, hints_history, state')
                /\ last' = "reset"
                /\ UNCHANGED << hint_count, hints_history, pc, hint_question >>

Next ==
    \/ Rerun
    \/ \E q \in Questions : ClickGetHint(q)
    \/ \E e \in Envs : SendReturns(e)
    \/ \E a \in Answers : SubmitAnswer(a)
    \/ Reset

Spec == Init /\ [][Next]_vars

\* ------------------------------------------------------------------ claims

\* The outcomes after which send_cortex_message has returned None or a falsy body.
FailedOutcomes == {"no_token", "transport", "http_error", "not_json", "empty"}

\* C1: hint_count stays within 0..MAX_HINTS in every state, the one between
\* the debit and the gateway's answer included, and a step lowers it only as
\* the rollback of a hint request whose gateway call failed, by exactly one.
C1_HintCountBounded ==
    /\ [](hint_count \in 0..MAX_HINTS)
    /\ [][hint_count' < hint_count =>
            /\ pc = "sending"
            /\ pc' = "idle"
            /\ last' \in FailedOutcomes
            /\ hint_count' = hint_count - 1]_vars

\* C1 witness: the second hint of the budget was debited and rolled back,
\* with answers submitted in the same session.
C1_Witness ==
    /\ last \in FailedOutcomes
    /\ hint_count = MAX_HINTS - 1
    /\ Len(hints_history) = MAX_HINTS - 1
    /\ state.attempts > 0

\* C2: a hint request debits hint_count by one and leaves the history alone;
\* when the gateway then answers with a status >= 400, a transport exception
\* or no token, the run takes the debit back and appends nothing, so the
\* count and the history are what they were before the request.
C2_FailedHintRestoresBudget ==
    [][/\ (pc = "idle" /\ pc' = "sending") =>
            /\ hint_count' = hint_count + 1
            /\ hints_history' = hints_history
       /\ (pc = "sending" /\ last' \in {"http_error", "transport", "no_token"}) =>
            /\ hint_count' = hint_count - 1
            /\ hints_history' = hints_history]_vars

\* C2 witness: a request answered with a status >= 400 has completed after an
\* earlier hint succeeded.
C2_Witness ==
    /\ last = "http_error"
    /\ pc = "idle"
    /\ hint_count = 1
    /\ Len(hints_history) = 1

RefNonBlank(a) == \E i \in 1..Len(a) : a[i] \notin Whitespace

\* Reference for C4: a is the correct answer between two runs of whitespace.
RefIsCorrect(a) ==
    \E i \in 0..Len(a) :
        /\ i + Len(correct_answer) <= Len(a)
        /\ \A k \in 1..Len(a) :
             IF k > i /\ k <= i + Len(correct_answer)
             THEN a[k] = correct_answer[k - i]
             ELSE a[k] \in Whitespace

\* C4: a submission of an answer with a non-whitespace character that reaches
\* process_answer raises attempts by exactly one and sets is_clear to whether
\* the answer is the correct string inside surrounding whitespace.
C4_AnswerJudged ==
    [][\A a \in Answers :
         (RefNonBlank(a) /\ last' = "submit" /\ SubmitAnswer(a)) =>
            /\ state'.attempts = state.attempts + 1
            /\ state'.is_clear = RefIsCorrect(a)]_vars

\* C4 witness: the first submission was a correct one.
C4_Witness ==
    /\ last = "submit"
    /\ state.attempts = 1
    /\ state.is_clear

\* C5: a submission of an empty or whitespace-only answer changes neither
\* attempts nor is_clear nor hint_count nor the history.
C5_BlankAnswerNoChange ==
    [][\A a \in Answers :
         (Blank(a) /\ SubmitAnswer(a)) =>
            UNCHANGED << state, hint_count, hints_history >>]_vars

\* C5 witness: a blank answer was submitted in a session that has a cleared
\* state and a recorded hint to lose.
C5_Witness ==
    /\ last = "submit_blank"
    /\ state.is_clear
    /\ hint_count = 1
    /\ Len(hints_history) = 1

\* C6: attempts never exceeds MAX_ATTEMPTS_MAIN; once it is there the quiz
\* state changes only by the reset, which sets attempts to 0 and is_clear to
\* FALSE and leaves hint_count and the history alone.
C6_AttemptsExhausted ==
    /\ [](state.attempts <= MAX_ATTEMPTS_MAIN)
    /\ [][(state.attempts >= MAX_ATTEMPTS_MAIN /\ state' # state) =>
            /\ last' = "reset"
            /\ state' = [attempts |-> 0, is_clear |-> FALSE]
            /\ hint_count' = hint_count
            /\ hints_history' = hints_history]_vars

\* C6 witness: the reset ran in a session whose hundredth answer was not the
\* only thing it did: a hint is recorded.
C6_Witness ==
    /\ last = "reset"
    /\ state.attempts = 0
    /\ hint_count = 1
    /\ Len(hints_history) = 1

\* C7: once is_clear is TRUE it is TRUE after every later step.
C7_ClearedIsTerminal == [][state.is_clear => state'.is_clear]_vars

\* C8 as stated: once a connection attempt has failed, no hint request is in
\* flight, no run executes a query, and hint_count and the history never change.
C8_FailureIsFatal ==
    /\ [](conn_failed => (pc = "idle" /\ ~queries_run))
    /\ [][conn_failed => (hint_count' = hint_count /\ hints_history' = hints_history)]_vars

\* C8 amended: as long as no connection is stored (every attempt so far has
\* failed) no hint request is in flight, the hint button is not clickable, no
\* run executes a query, and hint_count and the history do not change.
C8_NoConnectionNoHints ==
    /\ [](snowflake_conn = None =>
            (pc = "idle" /\ ~queries_run /\ "get_hint" \notin buttons))
    /\ [][snowflake_conn' = None =>
            (hint_count' = hint_count /\ hints_history' = hints_history)]_vars

\* C8 witness: the connection failed and is still missing after answers were
\* submitted.
C8_Witness ==
    /\ conn_failed
    /\ snowflake_conn = None
    /\ state.attempts = 2

\* C9: a step changes the history only as a successful hint request that
\* appends one record of the question asked and the response's blocks in the
\* order received, and every successful request does so.
C9_HistoryAppendOnly ==
    [][/\ hints_history' # hints_history =>
            \E e \in Envs :
                /\ pc = "sending"
                /\ Outcome(e) = "content"
                /\ hints_history' =
                     Append(hints_history,
                            [question |-> hint_question, response |-> e.body.content])
       /\ \A e \in Envs :
            (SendReturns(e) /\ Outcome(e) = "content") =>
                hints_history' =
                    Append(hints_history,
                           [question |-> hint_question, response |-> e.body.content])]_vars

\* C9 witness: two hints with different questions and differently ordered
\* blocks are recorded in the order asked, and survive a submission.
C9_Witness ==
    /\ Len(hints_history) = 2
    /\ hints_history[1] = [question |-> <<"q", "q">>, response |-> <<"text", "sql">>]
    /\ hints_history[2] = [question |-> <<"q">>, response |-> <<"sql", "text">>]
    /\ last = "submit"

\* C10: when no hint request is in flight the history has hint_count records.
C10_HistoryMatchesCount == pc = "idle" => Len(hints_history) = hint_count

====
